---- MODULE Spec2Model ----
(***************************************************************************)
(* Model of name.py: a command-line utility keeping a table of unique      *)
(* names in a local SQLite store.  One process is one CLI invocation; the  *)
(* store persists between invocations.  Names and typed answers are        *)
(* sequences of character codes, so that lower-casing and the ORDER BY     *)
(* comparison are computed rather than assumed.                            *)
(***************************************************************************)
EXTENDS Integers, Sequences, FiniteSets, TLC

VARIABLES
    db,             \* durable store: [table, rows, seq]
    work,           \* the open connection's view (durable + pending changes)
    in_transaction, \* the connection has an open (implicit) transaction
    conn,           \* db_manager.conn: "none" | "open" | "closed"
    fault,          \* storage failure the environment injects in this scope
    pc,             \* position of the process
    fn,             \* function whose storage scope is current
    args,           \* the parsed argparse namespace
    current_name,   \* main: current_name of the add loop
    confirmation,   \* reset_db: the typed confirmation
    exc,            \* exception raised inside the with-body ("None" if none)
    raised,         \* exception propagating out of the with-statement
    msg,            \* last outcome reported to the user
    out,            \* names printed by print_all_names, in order
    exit_code,      \* process exit code, -1 while none is set
    db0,            \* the store as it was when the invocation started
    added           \* names given to Add by the add/list scenario

vars == <<db, work, in_transaction, conn, fault, pc, fn, args, current_name,
          confirmation, exc, raised, msg, out, exit_code, db0, added>>

-----------------------------------------------------------------------------
(* Bounds and the strings the model draws its inputs from. *)

MaxId == 3

Empty == <<>>

NameA == <<65>>

NameLowerA == <<97>>

TestErrorName == <<84, 101, 115, 116, 69, 114, 114, 111, 114, 78, 97, 109, 101>>

Names == {Empty, NameA, NameLowerA, TestErrorName}

AnswerY == <<121>>

AnswerUpperY == <<89>>

AnswerN == <<110>>

Confirmations == {AnswerY, AnswerUpperY, AnswerN, Empty}

-----------------------------------------------------------------------------
(* Pure helpers. *)

Max(a, b) == IF a >= b THEN a ELSE b

Min(a, b) == IF a <= b THEN a ELSE b

LowerIdentity(s) == s

\* str.lower() on ASCII codes
Lower(s) == [i \in 1..Len(s) |-> IF s[i] \in 65..90 THEN s[i] + 32 ELSE s[i]]

\* SQLite BINARY collation: bytewise comparison, a proper prefix sorts first
LexLess(s, t) ==
    \E i \in 1..(Min(Len(s), Len(t)) + 1) :
        /\ \A j \in 1..(i - 1) : s[j] = t[j]
        /\ \/ i > Len(s) /\ i <= Len(t)
           \/ i <= Len(s) /\ i <= Len(t) /\ s[i] < t[i]

RowBefore(r, q) == LexLess(r.name, q.name) \/ (r.name = q.name /\ r.id < q.id)

RECURSIVE RowidOrder(_)
RowidOrder(R) ==
    IF R = {} THEN <<>>
    ELSE LET m == CHOOSE r \in R : \A q \in R : r.id <= q.id
         IN  <<m.name>> \o RowidOrder(R \ {m})

\* SELECT name FROM names ORDER BY name
RECURSIVE SelectOrderByName(_)
SelectOrderByName(R) ==
    IF R = {} THEN <<>>
    ELSE LET m == CHOOSE r \in R : \A q \in R : r = q \/ RowBefore(r, q)
         IN  <<m.name>> \o SelectOrderByName(R \ {m})

NamesOf(d) == {r.name : r \in d.rows}

MaxRowid(R) == IF R = {} THEN 0 ELSE CHOOSE m \in {r.id : r \in R} : \A r \in R : r.id <= m

\* AUTOINCREMENT: one more than the largest rowid the table ever held
NextId(d) == Max(d.seq, MaxRowid(d.rows)) + 1

EmptyStore == [table |-> FALSE, rows |-> {}, seq |-> 0]

\* CREATE TABLE names (...) on a store without the table
CreatedTable == [table |-> TRUE, rows |-> {}, seq |-> 0]

-----------------------------------------------------------------------------
(* SQL statements: each yields the exception it raises and the new view. *)

InsertNoUnique(d, n) ==
    IF ~d.table THEN [exc |-> "OperationalError", d |-> d]
    ELSE [exc |-> "None",
          d |-> [d EXCEPT !.rows = @ \cup {[id |-> NextId(d), name |-> n]},
                          !.seq = NextId(d)]]

\* INSERT INTO names (name) VALUES (?)   with name TEXT NOT NULL UNIQUE
Insert(d, n) ==
    IF ~d.table THEN [exc |-> "OperationalError", d |-> d]
    ELSE IF n \in NamesOf(d) THEN [exc |-> "IntegrityError", d |-> d]
    ELSE [exc |-> "None",
          d |-> [d EXCEPT !.rows = @ \cup {[id |-> NextId(d), name |-> n]},
                          !.seq = NextId(d)]]

Renamed(R, old, new) ==
    {IF r.name = old THEN [r EXCEPT !.name = new] ELSE r : r \in R}

UpdateNoUnique(d, old, new) ==
    [exc |-> "None", d |-> [d EXCEPT !.rows = Renamed(@, old, new)],
     rowcount |-> Cardinality({r \in d.rows : r.name = old})]

\* UPDATE names SET name = ? WHERE name = ?
Update(d, old, new) ==
    LET hit  == {r \in d.rows : r.name = old}
        rest == d.rows \ hit
    IN  IF hit # {} /\ (Cardinality(hit) > 1 \/ new \in {r.name : r \in rest})
        THEN [exc |-> "IntegrityError", d |-> d, rowcount |-> 0]
        ELSE [exc |-> "None", d |-> [d EXCEPT !.rows = Renamed(@, old, new)],
              rowcount |-> Cardinality(hit)]

DeleteNoWhere(d, n) ==
    [d |-> [d EXCEPT !.rows = {}], rowcount |-> Cardinality(d.rows)]

\* DELETE FROM names WHERE name = ?
Delete(d, n) ==
    [d |-> [d EXCEPT !.rows = {r \in @ : r.name # n}],
     rowcount |-> Cardinality({r \in d.rows : r.name = n})]

-----------------------------------------------------------------------------
(* The argparse namespace.  An optional string is <<>> (None) or <<s>>;     *)
(* args.update is <<>> (None) or the two-element list <<old, new>>.        *)

NoArgs ==
    [input |-> <<>>, update |-> <<>>, delete |-> <<>>, output |-> FALSE,
     initialize |-> FALSE, test_error |-> FALSE]

ArgsInput(n) == [NoArgs EXCEPT !.input = <<n>>]

ArgsUpdate(o, n) == [NoArgs EXCEPT !.update = <<o, n>>]

ArgsDelete(n) == [NoArgs EXCEPT !.delete = <<n>>]

ArgsOutput == [NoArgs EXCEPT !.output = TRUE]

ActionArgs ==
    {NoArgs, ArgsOutput}
    \cup {ArgsInput(n) : n \in Names}
    \cup {ArgsDelete(n) : n \in Names}
    \cup {ArgsUpdate(o, n) : o \in Names, n \in Names}

\* the namespaces parse_args can return that the model draws from
Namespaces ==
    ActionArgs
    \cup {[a EXCEPT !.initialize = TRUE] : a \in {NoArgs, ArgsOutput, ArgsInput(NameA)}}
    \cup {[a EXCEPT !.test_error = TRUE] : a \in {NoArgs, ArgsOutput, ArgsDelete(NameA)}}
    \cup {[ArgsOutput EXCEPT !.initialize = TRUE, !.test_error = TRUE]}

\* Python truthiness of an optional string: None and '' are false
Truthy(o) == Len(o) = 1 /\ o[1] # Empty

action_specified(a) ==
    Truthy(a.input) \/ Len(a.update) = 2 \/ Truthy(a.delete) \/ a.output

\* the invocation runs an INSERT, which draws a fresh rowid
Inserts(a) ==
    ~a.initialize /\ action_specified(a) /\ (a.test_error \/ Truthy(a.input))

Running == pc \notin {"shell", "exited"}

Init ==
    /\ db = EmptyStore
    /\ work = EmptyStore
    /\ in_transaction = FALSE
    /\ conn = "none"
    /\ fault = "none"
    /\ pc = "shell"
    /\ fn = "main"
    /\ args = NoArgs
    /\ current_name = Empty
    /\ confirmation = Empty
    /\ exc = "None"
    /\ raised = "None"
    /\ msg = "none"
    /\ out = <<>>
    /\ exit_code = -1
    /\ db0 = EmptyStore
    /\ added = {}


-----------------------------------------------------------------------------
(* main, up to the first prompt or storage scope. *)

Run(a) ==
    /\ ~Running
    /\ Inserts(a) => db.seq < MaxId
    /\ args' = a
    /\ conn' = "none"
    /\ db0' = db
    /\ work' = db
    /\ in_transaction' = FALSE
    /\ fault' = "none"
    /\ exc' = "None"
    /\ raised' = "None"
    /\ out' = <<>>
    /\ confirmation' = Empty
    /\ current_name' = Empty
    /\ UNCHANGED db
    /\ IF a.initialize
       THEN fn' = "reset_db" /\ pc' = "confirm" /\ msg' = "none" /\ exit_code' = -1
       ELSE IF ~action_specified(a)
       THEN fn' = "main" /\ pc' = "exited" /\ msg' = "help" /\ exit_code' = 0
       ELSE IF ~a.test_error
       THEN fn' = "initialize_db" /\ pc' = "enter" /\ msg' = "none" /\ exit_code' = -1
       ELSE fn' = "test_error" /\ pc' = "enter" /\ msg' = "test_start" /\ exit_code' = -1

Invoke == \E a \in Namespaces : Run(a) /\ UNCHANGED added

\* reset_db: the confirmation prompt; <<>> as reply is end-of-input
ResetConfirm ==
    /\ pc = "confirm"
    /\ \E reply \in {<<>>} \cup {<<c>> : c \in Confirmations} :
         IF reply = <<>>
         THEN /\ msg' = "traceback"
              /\ exit_code' = 1
              /\ pc' = "exited"
              /\ UNCHANGED confirmation
         ELSE /\ confirmation' = reply[1]
              /\ IF Lower(reply[1]) # AnswerY
                 THEN msg' = "reset_cancelled" /\ pc' = "exited" /\ exit_code' = 0
                 ELSE pc' = "enter" /\ UNCHANGED <<msg, exit_code>>
    /\ UNCHANGED <<db, work, in_transaction, conn, fault, fn, args,
                   current_name, exc, raised, out, db0, added>>

-----------------------------------------------------------------------------
(* DatabaseManager. *)

\* the statements of f's scope that can fail, and whether its commit can
FaultsOf(f) ==
    {"none", "connect", "execute"}
    \cup (IF f \in {"reset_db", "update_name"} THEN {"execute2"} ELSE {})
    \cup (IF f \in {"add_name", "update_name", "delete_name"} THEN {"commit"} ELSE {})

FaultKinds == {"none", "connect", "execute", "execute2", "commit"}

\* __enter__
Enter(F) ==
    /\ pc = "enter"
    /\ \E f \in F \cap FaultsOf(fn) :
         /\ fault' = f
         /\ IF f = "connect"
            THEN /\ msg' = "connect_error"
                 /\ exit_code' = 1
                 /\ pc' = "exited"
                 /\ UNCHANGED conn
            ELSE /\ conn' = "open"
                 /\ pc' = "body"
                 /\ UNCHANGED <<msg, exit_code>>
    /\ work' = db
    /\ in_transaction' = FALSE
    /\ exc' = "None"
    /\ raised' = "None"
    /\ UNCHANGED <<db, fn, args, current_name, confirmation, out, db0, added>>

ExitWithoutRollback ==
    /\ pc = "exit"
    /\ conn = "open"
    /\ IF exc = "None" /\ in_transaction /\ fault = "commit"
       THEN db' = db /\ msg' = "commit_error"
       ELSE db' = work /\ msg' = (IF exc = "None" THEN msg ELSE "rollback")
    /\ conn' = "closed"
    /\ work' = db'
    /\ in_transaction' = FALSE
    /\ raised' = exc
    /\ pc' = "after"
    /\ UNCHANGED <<fault, fn, args, current_name, confirmation, exc, out,
                   exit_code, db0, added>>

ExitCloseInsideTry ==
    /\ pc = "exit"
    /\ conn = "open"
    /\ IF exc = "None"
       THEN IF in_transaction /\ fault = "commit"
            THEN db' = db /\ msg' = "commit_error" /\ conn' = "open"
            ELSE db' = work /\ msg' = msg /\ conn' = "closed"
       ELSE db' = db /\ msg' = "rollback" /\ conn' = "closed"
    /\ work' = db'
    /\ in_transaction' = FALSE
    /\ raised' = exc
    /\ pc' = "after"
    /\ UNCHANGED <<fault, fn, args, current_name, confirmation, exc, out,
                   exit_code, db0, added>>

\* __exit__: commit or roll back, close, and let the exception propagate
Exit ==
    /\ pc = "exit"
    /\ conn = "open"
    /\ IF exc = "None"
       THEN IF in_transaction /\ fault = "commit"
            THEN db' = db /\ msg' = "commit_error"
            ELSE db' = work /\ msg' = msg
       ELSE db' = db /\ msg' = "rollback"
    /\ conn' = "closed"
    /\ work' = db'
    /\ in_transaction' = FALSE
    /\ raised' = exc
    /\ pc' = "after"
    /\ UNCHANGED <<fault, fn, args, current_name, confirmation, exc, out,
                   exit_code, db0, added>>

-----------------------------------------------------------------------------
(* The with-bodies of the repository functions. *)

\* initialize_db: CREATE TABLE IF NOT EXISTS (DDL, committed at once)
BodyInitialize ==
    /\ pc = "body" /\ fn = "initialize_db"
    /\ IF fault = "execute"
       THEN exc' = "OperationalError" /\ UNCHANGED <<db, work>>
       ELSE /\ exc' = "None"
            /\ db' = (IF db.table THEN db ELSE CreatedTable)
            /\ work' = db'
    /\ pc' = "exit"
    /\ UNCHANGED <<in_transaction, conn, fault, fn, args, current_name,
                   confirmation, raised, msg, out, exit_code, db0, added>>

\* reset_db: DROP TABLE IF EXISTS, then CREATE TABLE (DDL, committed at once)
BodyReset ==
    /\ pc = "body" /\ fn = "reset_db"
    /\ IF fault = "execute"
       THEN exc' = "OperationalError" /\ UNCHANGED <<db, work, msg>>
       ELSE IF fault = "execute2"
       THEN exc' = "OperationalError" /\ db' = EmptyStore /\ work' = db' /\ UNCHANGED msg
       ELSE exc' = "None" /\ db' = CreatedTable /\ work' = db' /\ msg' = "reset_done"
    /\ pc' = "exit"
    /\ UNCHANGED <<in_transaction, conn, fault, fn, args, current_name,
                   confirmation, raised, out, exit_code, db0, added>>

\* add_name: INSERT, success message
BodyAdd ==
    /\ pc = "body" /\ fn = "add_name"
    /\ LET r == IF fault = "execute"
                THEN [exc |-> "OperationalError", d |-> work]
                ELSE Insert(work, current_name)
       IN  /\ exc' = r.exc
           /\ work' = r.d
           /\ in_transaction' = (r.exc \in {"None", "IntegrityError"})
           /\ msg' = (IF r.exc = "None" THEN "saved" ELSE msg)
    /\ pc' = "exit"
    /\ UNCHANGED <<db, conn, fault, fn, args, current_name, confirmation,
                   raised, out, exit_code, db0, added>>

\* update_name: SELECT id ... WHERE name = old, then UPDATE
BodyUpdate ==
    /\ pc = "body" /\ fn = "update_name"
    /\ LET old == args.update[1]
           new == args.update[2]
           u   == Update(work, old, new)
       IN  IF fault = "execute" \/ ~work.table
           THEN exc' = "OperationalError" /\ UNCHANGED <<work, in_transaction, msg>>
           ELSE IF old \notin NamesOf(work)
           THEN exc' = "None" /\ msg' = "not_found" /\ UNCHANGED <<work, in_transaction>>
           ELSE IF fault = "execute2"
           THEN exc' = "OperationalError" /\ UNCHANGED <<work, in_transaction, msg>>
           ELSE /\ exc' = u.exc
                /\ work' = u.d
                /\ in_transaction' = TRUE
                /\ msg' = (IF u.exc # "None" THEN msg
                           ELSE IF u.rowcount > 0 THEN "renamed" ELSE "not_changed")
    /\ pc' = "exit"
    /\ UNCHANGED <<db, conn, fault, fn, args, current_name, confirmation,
                   raised, out, exit_code, db0, added>>

\* delete_name: DELETE ... WHERE name = ?
BodyDelete ==
    /\ pc = "body" /\ fn = "delete_name"
    /\ LET r == Delete(work, args.delete[1])
       IN  IF fault = "execute" \/ ~work.table
           THEN exc' = "OperationalError" /\ UNCHANGED <<work, in_transaction, msg>>
           ELSE /\ exc' = "None"
                /\ work' = r.d
                /\ in_transaction' = TRUE
                /\ msg' = (IF r.rowcount > 0 THEN "deleted" ELSE "not_found")
    /\ pc' = "exit"
    /\ UNCHANGED <<db, conn, fault, fn, args, current_name, confirmation,
                   raised, out, exit_code, db0, added>>

\* print_all_names: SELECT name FROM names ORDER BY name
BodyList ==
    /\ pc = "body" /\ fn = "print_all_names"
    /\ IF fault = "execute" \/ ~work.table
       THEN exc' = "OperationalError" /\ UNCHANGED <<out, msg>>
       ELSE /\ exc' = "None"
            /\ out' = SelectOrderByName(work.rows)
            /\ msg' = (IF out' = <<>> THEN "list_empty" ELSE "list")
    /\ pc' = "exit"
    /\ UNCHANGED <<db, work, in_transaction, conn, fault, fn, args,
                   current_name, confirmation, raised, exit_code, db0, added>>

\* main, --test-error: INSERT "TestErrorName", then raise ValueError
BodyTestError ==
    /\ pc = "body" /\ fn = "test_error"
    /\ LET r == IF fault = "execute"
                THEN [exc |-> "OperationalError", d |-> work]
                ELSE Insert(work, TestErrorName)
       IN  /\ exc' = (IF r.exc = "None" THEN "ValueError" ELSE r.exc)
           /\ work' = r.d
           /\ in_transaction' = (r.exc \in {"None", "IntegrityError"})
           /\ msg' = (IF r.exc = "None" THEN "temp_insert" ELSE msg)
    /\ pc' = "exit"
    /\ UNCHANGED <<db, conn, fault, fn, args, current_name, confirmation,
                   raised, out, exit_code, db0, added>>

-----------------------------------------------------------------------------
(* After the with-statement: the except clauses and the rest of main. *)

\* main, lines 230-251: the action chosen once initialize_db has returned
Dispatch ==
    IF Truthy(args.input)
    THEN /\ current_name' = args.input[1]
         /\ fn' = "add_name" /\ pc' = "enter"
         /\ UNCHANGED exit_code
    ELSE /\ UNCHANGED current_name
         /\ IF Len(args.update) = 2
            THEN /\ fn' = "update_name"
                 /\ IF args.update[1] = args.update[2]
                    THEN pc' = "exited" /\ exit_code' = 0
                    ELSE pc' = "enter" /\ UNCHANGED exit_code
            ELSE /\ fn' = (IF Truthy(args.delete) THEN "delete_name"
                           ELSE "print_all_names")
                 /\ pc' = "enter"
                 /\ UNCHANGED exit_code

Return ==
    /\ pc = "after"
    /\ IF fn = "initialize_db"
       THEN /\ Dispatch
            /\ msg' = (IF Len(args.update) = 2 /\ args.update[1] = args.update[2]
                          /\ ~Truthy(args.input)
                       THEN "same"
                       ELSE IF raised # "None" THEN "init_error" ELSE msg)
       ELSE IF fn = "add_name"
       THEN /\ UNCHANGED <<fn, current_name>>
            /\ IF raised = "None"
               THEN pc' = "exited" /\ exit_code' = 0 /\ UNCHANGED msg
               ELSE /\ pc' = "prompt"
                    /\ msg' = (IF raised = "IntegrityError" THEN "exists"
                               ELSE "db_error")
                    /\ UNCHANGED exit_code
       ELSE /\ UNCHANGED <<fn, current_name>>
            /\ pc' = "exited"
            /\ exit_code' = 0
            /\ msg' = (IF raised = "None" THEN msg
                       ELSE IF fn = "reset_db" THEN "init_error"
                       ELSE IF fn = "update_name" /\ raised = "IntegrityError"
                       THEN "exists"
                       ELSE IF fn = "test_error" /\ raised = "ValueError"
                       THEN "expected_error"
                       ELSE "db_error")
    /\ UNCHANGED <<db, work, in_transaction, conn, fault, args, confirmation,
                   exc, raised, out, db0, added>>

\* main, lines 233-243: the replacement-name prompt; <<>> is end-of-input
Prompt ==
    /\ pc = "prompt"
    /\ \E reply \in {<<>>} \cup {<<n>> : n \in Names} :
         IF reply = <<>>
         THEN /\ msg' = "interrupted"
              /\ pc' = "exited" /\ exit_code' = 0
              /\ UNCHANGED current_name
         ELSE IF reply[1] = Empty
         THEN /\ msg' = "add_cancelled"
              /\ pc' = "exited" /\ exit_code' = 0
              /\ UNCHANGED current_name
         ELSE /\ current_name' = reply[1]
              /\ pc' = "enter"
              /\ UNCHANGED <<msg, exit_code>>
    /\ UNCHANGED <<db, work, in_transaction, conn, fault, fn, args,
                   confirmation, exc, raised, out, db0, added>>

-----------------------------------------------------------------------------
(* Specifications. *)

\* every invocation, with storage failures
Next ==
    \/ Invoke
    \/ ResetConfirm
    \/ Enter(FaultKinds)
    \/ BodyInitialize
    \/ BodyReset
    \/ BodyAdd
    \/ BodyUpdate
    \/ BodyDelete
    \/ BodyList
    \/ BodyTestError
    \/ Exit
    \/ Return
    \/ Prompt

Spec == Init /\ [][Next]_vars

\* every invocation, the storage working without failure
NextReliable ==
    \/ Invoke
    \/ ResetConfirm
    \/ Enter({"none"})
    \/ BodyInitialize
    \/ BodyReset
    \/ BodyAdd
    \/ BodyUpdate
    \/ BodyDelete
    \/ BodyList
    \/ BodyTestError
    \/ Exit
    \/ Return
    \/ Prompt

SpecReliable == Init /\ [][NextReliable]_vars

\* Add of a name not added before, from the empty store
AddDistinct ==
    \E n \in (Names \ {Empty}) \ added :
        /\ Run(ArgsInput(n))
        /\ added' = added \cup {n}

ListAll == Run(ArgsOutput) /\ UNCHANGED added

NextAddList ==
    \/ AddDistinct
    \/ ListAll
    \/ Enter({"none"})
    \/ BodyInitialize
    \/ BodyAdd
    \/ BodyList
    \/ Exit
    \/ Return

SpecAddList == Init /\ [][NextAddList]_vars

-----------------------------------------------------------------------------
(* Properties. *)

\* C1: in every reachable state no two records of the store have the same
\* name (exact, case-sensitive comparison).
C1_UniqueNames ==
    \A r1 \in db.rows : \A r2 \in db.rows : r1.name = r2.name => r1 = r2

\* a duplicate insert was attempted on a store of two records and refused
C1_Witness ==
    /\ pc = "after" /\ fn = "add_name"
    /\ raised = "IntegrityError"
    /\ Cardinality(db.rows) >= 2

\* C2: an Add of a stored name, and a Rename of a stored name to another
\* stored name, fail with the duplicate-name outcome and leave the records
\* as they were: one record for the colliding name, the old name still there.
C2_DuplicateRejected ==
    /\ (fn = "add_name" /\ pc \in {"after", "prompt"}
          /\ current_name \in NamesOf(db0))
       => /\ raised = "IntegrityError"
          /\ pc = "prompt" => msg = "exists"
          /\ db.rows = db0.rows
          /\ Cardinality({r \in db.rows : r.name = current_name}) = 1
    /\ (fn = "update_name" /\ pc \in {"after", "exited"}
          /\ args.update[1] # args.update[2]
          /\ args.update[1] \in NamesOf(db0)
          /\ args.update[2] \in NamesOf(db0))
       => /\ raised = "IntegrityError"
          /\ pc = "exited" => (msg = "exists" /\ exit_code = 0)
          /\ db.rows = db0.rows
          /\ Cardinality({r \in db.rows : r.name = args.update[2]}) = 1
          /\ args.update[1] \in NamesOf(db)

\* a rename onto another stored name has been refused
C2_Witness ==
    /\ fn = "update_name" /\ pc = "exited"
    /\ args.update[1] \in NamesOf(db0)
    /\ args.update[2] \in NamesOf(db0) \ {args.update[1]}
    /\ msg = "exists"

\* C3: the store never contains a record whose name is the empty string.
C3_NonEmptyNames == \A r \in db.rows : r.name # Empty

\* C4: the exit code is 0 on every path, except that it is non-zero when
\* the storage cannot be opened.
C4_ExitCode ==
    pc = "exited" =>
        IF fault = "connect" THEN exit_code # 0 ELSE exit_code = 0

\* C5 as stated: after the fault-injection path, from any prior store, no
\* record named "TestErrorName" is present and the store is as before.
C5_NoTestErrorName ==
    (pc = "exited" /\ fn = "test_error" /\ conn = "closed")
    => (TestErrorName \notin NamesOf(db) /\ db = db0)

\* C5 as amended: after the fault-injection path the store equals its state
\* before the invocation, so "TestErrorName" is absent if it was absent
\* before.
C5_RolledBack ==
    (pc = "exited" /\ fn = "test_error")
    => /\ db = db0
       /\ TestErrorName \notin NamesOf(db0) => TestErrorName \notin NamesOf(db)

\* the insert was made next to existing records, the injected error raised
C5_Witness ==
    /\ pc = "exited" /\ fn = "test_error"
    /\ raised = "ValueError"
    /\ db0.rows # {}

\* C6: a connection is open only inside a scope; once the scope is left the
\* connection is closed, after a commit (failed or not) or a rollback, and
\* the error raised inside the scope is the one that reaches the caller.
C6_Released ==
    /\ conn = "open" => pc \in {"body", "exit"}
    /\ pc \in {"after", "prompt", "exited", "enter"} => conn # "open"
    /\ pc = "after" => (conn = "closed" /\ raised = exc)

\* a scope was left through a failed commit
C6_Witness ==
    /\ pc = "after"
    /\ exc = "None" /\ msg = "commit_error"
    /\ conn = "closed"

\* C7 as stated: an answer other than y opens no scope and leaves the store
\* unchanged; the answer y leaves the store with no record.
C7_OnlyLowerY ==
    (pc = "exited" /\ fn = "reset_db")
    => /\ confirmation # AnswerY => (conn = "none" /\ db = db0)
       /\ confirmation = AnswerY => (db.table /\ db.rows = {})

\* C7 as amended: an answer other than y or Y opens no scope and leaves the
\* store unchanged; the answer y or Y leaves the store with no record.
C7_AnyCaseY ==
    (pc = "exited" /\ fn = "reset_db")
    => /\ confirmation \notin {AnswerY, AnswerUpperY}
          => (conn = "none" /\ db = db0)
       /\ confirmation \in {AnswerY, AnswerUpperY}
          => (db.table /\ db.rows = {})

\* a populated store was emptied on the answer Y
C7_Witness ==
    /\ pc = "exited" /\ fn = "reset_db"
    /\ confirmation = AnswerUpperY
    /\ db0.rows # {}
    /\ db.rows = {}

\* C8: Rename of an absent name, Rename(a, a) and Delete of an absent name
\* report their negative outcome, raise no error and leave the records
\* unchanged.
C8_NoOp ==
    /\ (pc = "exited" /\ fn = "update_name"
          /\ args.update[1] = args.update[2])
       => (msg = "same" /\ raised = "None" /\ exit_code = 0
           /\ db.rows = db0.rows)
    /\ (pc = "exited" /\ fn = "update_name"
          /\ args.update[1] # args.update[2]
          /\ args.update[1] \notin NamesOf(db0))
       => (msg = "not_found" /\ raised = "None" /\ exit_code = 0
           /\ db.rows = db0.rows)
    /\ (pc = "exited" /\ fn = "delete_name"
          /\ args.delete[1] \notin NamesOf(db0))
       => (msg = "not_found" /\ raised = "None" /\ exit_code = 0
           /\ db.rows = db0.rows)

\* an absent name was deleted from a populated store
C8_Witness ==
    /\ pc = "exited" /\ fn = "delete_name"
    /\ args.delete[1] \notin NamesOf(db0)
    /\ msg = "not_found"
    /\ db0.rows # {}

Ascending(q) ==
    \A i \in 1..Len(q) : \A j \in 1..Len(q) : i < j => LexLess(q[i], q[j])

C9_Listed ==
    (pc = "after" /\ fn = "print_all_names")
    => /\ Len(out) = Cardinality(added)
       /\ {out[i] : i \in 1..Len(out)} = added
       /\ Ascending(out)

\* C9: after Adds of pairwise distinct names from the empty store, ListAll
\* outputs exactly those names, each once, in ascending lexicographic
\* order, and no step of ListAll changes the store.
C9_ListAll ==
    /\ []C9_Listed
    /\ [][(fn = "print_all_names" /\ Running) => db' = db]_vars

\* three names were listed that had not been added in ascending order
C9_Witness ==
    /\ pc = "after" /\ fn = "print_all_names"
    /\ Len(out) = 3
    /\ out # RowidOrder(db.rows)

\* C10: a replacement name is asked for only after an Add attempt failed
\* on a duplicate; the add loop ends on a success, an empty input or
\* end-of-input, and adds at most one record.
C10_PromptOnlyOnDuplicate ==
    /\ pc = "prompt" => raised = "IntegrityError"
    /\ (pc = "exited" /\ fn = "add_name" /\ exit_code = 0)
       => (raised = "None" \/ msg \in {"add_cancelled", "interrupted"})
    /\ fn = "add_name" => Cardinality(db.rows) <= Cardinality(db0.rows) + 1

====
